---- MODULE Spec2Model ----
(***************************************************************************)
(* Model of streamlit_app.py: the two market-data tools, the manual        *)
(* tool-calling generator get_llm_response and the Streamlit chat loop     *)
(* that drives it.                                                         *)
(*                                                                         *)
(* Python str values are TLA+ strings (Len, \o and SubSeq act on them      *)
(* character by character).  TLA+ strings are ASCII, so the two non-ASCII  *)
(* glyphs of the source are written as ASCII stand-ins of the same length  *)
(* in characters: the magnifying glass of line 102 as "?" and the block    *)
(* cursor of line 148 as "|".  The grave accents of line 152 are written   *)
(* "~", since the parser does not accept them in strings.                  *)
(***************************************************************************)
EXTENDS Integers, Sequences, FiniteSets, TLC

VARIABLES
    groq_key,        \* st.secrets has a non-empty GROQ_API_KEY
    av_key,          \* st.secrets has a non-empty ALPHA_VANTAGE_API_KEY
    error_shown,     \* the last script run rendered st.error (line 124)
    has_messages,    \* "messages" in st.session_state
    st_messages,     \* st.session_state.messages
    pc,              \* position of the script run / of the generator
    prompt,          \* the prompt of the turn in progress (line 136)
    full_response,   \* local full_response of the chat loop
    placeholder,     \* what placeholder.markdown last rendered
    llm_messages,    \* local messages of get_llm_response
    first_response,  \* what llm.invoke returned in this turn
    requests,        \* requests sent to the model in this turn, in order
    tool_calls_made, \* calls of line 104 made in this turn
    received,        \* chunks the second (streaming) completion delivered
    exc,             \* the exception that left get_llm_response / the loop body
    submitted,       \* every prompt accepted by st.chat_input, in order
    tool_in,         \* inputs of the last market-data tool execution
    tool_out         \* text the last market-data tool execution returned

vars == << groq_key, av_key, error_shown, has_messages, st_messages, pc, prompt,
           full_response, placeholder, llm_messages, first_response, requests,
           tool_calls_made, received, exc, submitted, tool_in, tool_out >>

chat_vars == << groq_key, av_key, error_shown, has_messages, st_messages, pc,
                prompt, full_response, placeholder, llm_messages, first_response,
                requests, tool_calls_made, received, exc, submitted >>

(***************************************************************************)
(* Bounds of the model.                                                    *)
(***************************************************************************)
MaxTurns == 2

MaxChunks == 2

\* How far past the character budget the longest provider text reaches.
MaxOver == 4

(***************************************************************************)
(* Text helpers.                                                           *)
(***************************************************************************)
Min(a, b) == IF a < b THEN a ELSE b

\* Python s[:n]
Prefix(s, n) == SubSeq(s, 1, Min(Len(s), n))

\* Python sep.join(lines)
RECURSIVE Join(_, _)
Join(lines, sep) ==
    IF lines = << >> THEN ""
    ELSE IF Len(lines) = 1 THEN lines[1]
    ELSE lines[1] \o sep \o Join(Tail(lines), sep)

\* A text of exactly n characters (provider payload of a chosen size).
RECURSIVE Pad(_)
Pad(n) ==
    IF n <= 0 THEN ""
    ELSE IF n < 10 THEN SubSeq("0123456789", 1, n)
    ELSE IF n % 2 = 0 THEN LET h == Pad(n \div 2) IN h \o h
    ELSE "#" \o Pad(n - 1)

(***************************************************************************)
(* The market-data tools (lines 18-42).                                    *)
(***************************************************************************)
\* full_output[:3500]
Budget == 3500

Truncate(full_output) == Prefix(full_output, Budget)

KeyMissingText == "Error: Alpha Vantage API key not found."

NewsErrorText(ticker, e) == "Error getting news: " \o e

OverviewErrorText(ticker, e) == "Error getting company overview: " \o e

\* f"- **{a['title']}**: {a['summary']}"; a missing key raises KeyError,
\* whose str() is the quoted key.
ArticleOk(a) == "title" \in DOMAIN a /\ "summary" \in DOMAIN a

ArticleKeyError(a) == IF "title" \notin DOMAIN a THEN "'title'" ELSE "'summary'"

ArticleLine(a) == "- **" \o a.title \o "**: " \o a.summary

NewsRender(feed) ==
    "Latest News:\n" \o Join([i \in 1..Len(feed) |-> ArticleLine(feed[i])], "\n")

\* outcome: what requests.get / raise_for_status / r.json() did for this call:
\* [kind |-> "raise", detail] or [kind |-> "ok", has_feed, feed].
get_stock_news_and_sentiment(ticker, api_key, outcome) ==
    IF ~api_key THEN KeyMissingText
    ELSE IF outcome.kind = "raise" THEN NewsErrorText(ticker, outcome.detail)
    ELSE IF ~outcome.has_feed \/ outcome.feed = << >>
         THEN "No news found for " \o ticker \o "."
    ELSE IF \E i \in 1..Len(outcome.feed) : ~ArticleOk(outcome.feed[i])
         THEN LET bad == CHOOSE i \in 1..Len(outcome.feed) :
                             /\ ~ArticleOk(outcome.feed[i])
                             /\ \A j \in 1..(i - 1) : ArticleOk(outcome.feed[j])
              IN  NewsErrorText(ticker, ArticleKeyError(outcome.feed[bad]))
    ELSE Truncate(NewsRender(outcome.feed))

\* f"**{key}**: {value[0]}"
OverviewLine(item) == "**" \o item.key \o "**: " \o item.value

OverviewRender(ticker, items) ==
    "Company Overview for " \o ticker \o ":\n"
        \o Join([i \in 1..Len(items) |-> OverviewLine(items[i])], "\n")

\* outcome: what FundamentalData.get_company_overview did for this call:
\* [kind |-> "raise", detail] or [kind |-> "ok", items] (items = << >> is an
\* empty frame).
get_company_overview(ticker, api_key, outcome) ==
    IF ~api_key THEN KeyMissingText
    ELSE IF outcome.kind = "raise" THEN OverviewErrorText(ticker, outcome.detail)
    ELSE IF outcome.items = << >>
         THEN "No company overview found for " \o ticker \o "."
    ELSE Truncate(OverviewRender(ticker, outcome.items))

\* tools (lines 47-50)
ToolNames == {"get_stock_news_and_sentiment", "get_company_overview"}

RunTool(name, ticker, api_key, outcome) ==
    IF name = "get_stock_news_and_sentiment"
    THEN get_stock_news_and_sentiment(ticker, api_key, outcome)
    ELSE get_company_overview(ticker, api_key, outcome)

\* The text a tool renders before the cut of lines 28 / 41.
Rendered(name, ticker, outcome) ==
    IF name = "get_stock_news_and_sentiment"
    THEN NewsRender(outcome.feed)
    ELSE OverviewRender(ticker, outcome.items)

(***************************************************************************)
(* Inputs of the tools: tickers and provider outcomes.                     *)
(***************************************************************************)
Tickers == {"TSLA", "NVDA"}

Details == {"timeout", "503 Server Error"}

RaiseOutcomes == {[kind |-> "raise", detail |-> d] : d \in Details}

\* Lengths of the fixed parts of a one-line rendering with a one-character
\* title / key, so that payload sizes can be placed around the budget.
NewsFixedLen == Len(NewsRender(<< [title |-> "T", summary |-> ""] >>))

OverviewFixedLen(ticker) == Len(OverviewRender(ticker, << [key |-> "K", value |-> ""] >>))

\* Rendered lengths to exercise: short, just under, at and over the budget.
RenderedLens == {40} \cup ((Budget - 1)..(Budget + MaxOver))

NewsOkOutcomes ==
    {[kind |-> "ok", has_feed |-> FALSE, feed |-> << >>],
     [kind |-> "ok", has_feed |-> TRUE, feed |-> << >>],
     [kind |-> "ok", has_feed |-> TRUE, feed |-> << [summary |-> "no title"] >>],
     [kind |-> "ok", has_feed |-> TRUE,
      feed |-> << [title |-> "Q3", summary |-> "up"], [title |-> "Q4", summary |-> "down"] >>]}
    \cup {[kind |-> "ok", has_feed |-> TRUE,
           feed |-> << [title |-> "T", summary |-> Pad(n - NewsFixedLen)] >>]
          : n \in RenderedLens}

OverviewOkOutcomes(ticker) ==
    {[kind |-> "ok", items |-> << >>],
     [kind |-> "ok", items |-> << [key |-> "Symbol", value |-> ticker],
                                  [key |-> "MarketCapitalization", value |-> "1000"] >>]}
    \cup {[kind |-> "ok", items |-> << [key |-> "K", value |-> Pad(n - OverviewFixedLen(ticker))] >>]
          : n \in RenderedLens}

Outcomes(name, ticker) ==
    RaiseOutcomes \cup
    (IF name = "get_stock_news_and_sentiment" THEN NewsOkOutcomes
     ELSE OverviewOkOutcomes(ticker))

NoToolIn == [name |-> "", ticker |-> "", api_key |-> FALSE, outcome |-> [kind |-> "none"]]

NoToolOut == [returned |-> FALSE, text |-> ""]

(***************************************************************************)
(* The orchestrator get_llm_response (lines 82-117) and its collaborators. *)
(***************************************************************************)
SystemPrompt == "You are a helpful assistant. Given a user query, decide if you need to call a function to get information. If so, respond with the function call in JSON format."

Greeting == "Hi! How can I help you with your financial research today?"

\* line 102 (the leading glyph written "?")
Notice == "? Accessing financial data...\n\n"

\* line 113
UnknownToolText == "Error: AI chose a tool that doesn't exist."

\* line 148 (the block cursor written "|")
Cursor == "|"

\* line 151
Apology == "Sorry, an error occurred. This can happen if an external data source is slow or if the daily token limit has been reached. Please try again in a few minutes."

\* traceback.format_exc() for the exception being handled
format_exc(e) == "Traceback (most recent call last):\n" \o e \o "\n"

\* line 152 (each grave accent of the code fence written "~")
DebugInfo(e) == "\n\n**Debug Info:**\n~~~\n" \o format_exc(e) \o "\n~~~"

NoExc == ""

Msg(role, content) == [role |-> role, content |-> content]

\* lines 87-90
InitialMessages(p) == << Msg("system", SystemPrompt), Msg("user", p) >>

\* line 94: llm.invoke(messages=messages, tools=tool_definitions, tool_choice="auto")
InvokeRequest(msgs) ==
    [kind |-> "invoke", messages |-> msgs, tools |-> TRUE, tool_choice |-> "auto"]

\* Variant of StreamRequest that passes the tool descriptors again.
StreamRequestWithTools(msgs) ==
    [kind |-> "stream", messages |-> msgs, tools |-> TRUE, tool_choice |-> "auto"]

\* lines 109 / 115: llm.response_stream(messages=messages)
StreamRequest(msgs) ==
    [kind |-> "stream", messages |-> msgs, tools |-> FALSE, tool_choice |-> "none"]

\* json.loads on the argument texts the model is given here.
ArgTexts ==
    {"{\"ticker\": \"TSLA\"}", "{\"ticker\": \"NVDA\"}", "{}",
     "{\"ticker\": \"TSLA\", \"limit\": 5}", "[\"TSLA\"]", "{\"ticker\": "}

json_loads(text) ==
    CASE text = "{\"ticker\": \"TSLA\"}" ->
            [ok |-> TRUE, type |-> "dict", keys |-> {"ticker"}, ticker |-> "TSLA", error |-> ""]
      [] text = "{\"ticker\": \"NVDA\"}" ->
            [ok |-> TRUE, type |-> "dict", keys |-> {"ticker"}, ticker |-> "NVDA", error |-> ""]
      [] text = "{}" ->
            [ok |-> TRUE, type |-> "dict", keys |-> {}, ticker |-> "", error |-> ""]
      [] text = "{\"ticker\": \"TSLA\", \"limit\": 5}" ->
            [ok |-> TRUE, type |-> "dict", keys |-> {"ticker", "limit"}, ticker |-> "TSLA", error |-> ""]
      [] text = "[\"TSLA\"]" ->
            [ok |-> TRUE, type |-> "list", keys |-> {}, ticker |-> "", error |-> ""]
      [] OTHER ->
            [ok |-> FALSE, type |-> "", keys |-> {}, ticker |-> "",
             error |-> "json.decoder.JSONDecodeError: Expecting value: line 1 column 12 (char 11)"]

\* What the call of line 104 (keyword-unpacking function_args) raises before
\* the tool body runs
\* (both tools have the single parameter ticker); NoExc when the call binds.
BindError(name, args) ==
    LET extra == {k \in args.keys : k # "ticker"}
        notMapping == "TypeError: " \o name \o "() argument after ** must be a mapping, not " \o args.type
        unexpected == "TypeError: " \o name \o "() got an unexpected keyword argument '" \o (CHOOSE k \in extra : TRUE) \o "'"
        missing == "TypeError: " \o name \o "() missing 1 required positional argument: 'ticker'"
    IN  CASE args.type # "dict" -> notMapping
          [] args.type = "dict" /\ extra # {} -> unexpected
          [] args.type = "dict" /\ extra = {} /\ "ticker" \notin args.keys -> missing
          [] OTHER -> NoExc

ToolCall(id, name, arguments) == [id |-> id, name |-> name, arguments |-> arguments]

\* line 106: the assistant message of the first completion
AssistantToolMessage(resp) ==
    [role |-> "assistant", content |-> "", tool_calls |-> resp.tool_calls]

\* line 107
ToolMessage(tc, output) ==
    [role |-> "tool", tool_call_id |-> tc.id, name |-> tc.name, content |-> output]

NoResponse == [returned |-> FALSE, tool_calls |-> << >>]

\* The completions llm.invoke may return: no tool call, one, or several.
FirstResponses ==
    {[returned |-> TRUE, tool_calls |-> tcs] : tcs \in
        { << >>,
          << ToolCall("call_1", "get_company_overview", "{\"ticker\": \"TSLA\"}") >>,
          << ToolCall("call_1", "get_stock_news_and_sentiment", "{\"ticker\": \"NVDA\"}") >>,
          << ToolCall("call_1", "get_company_overview", "{}") >>,
          << ToolCall("call_1", "get_stock_news_and_sentiment", "{\"ticker\": \"TSLA\", \"limit\": 5}") >>,
          << ToolCall("call_1", "get_company_overview", "[\"TSLA\"]") >>,
          << ToolCall("call_1", "get_stock_news_and_sentiment", "{\"ticker\": ") >>,
          << ToolCall("call_1", "get_stock_price", "{\"ticker\": \"TSLA\"}") >>,
          << ToolCall("call_1", "get_stock_price", "{\"ticker\": ") >>,
          << ToolCall("call_1", "get_company_overview", "{\"ticker\": \"TSLA\"}"),
             ToolCall("call_2", "get_stock_news_and_sentiment", "{\"ticker\": \"TSLA\"}") >> }}

InvokeErrors == {"groq.APIConnectionError: Connection error."}

StreamErrors == {"groq.APIError: stream interrupted"}

\* Chunks of a streaming completion: a str fragment, or an object that is
\* not a str (a metadata event, a tool-call delta).
StrChunk(s) == [type |-> "str", value |-> s]

ObjChunk(what) == [type |-> "object", value |-> what]

Chunks == {StrChunk("ok"), ObjChunk("metadata"), ObjChunk("tool_calls")}

\* full_response += chunk (line 147) with a chunk that is not a str
ConcatTypeError == "TypeError: can only concatenate str (not \"object\") to str"

Prompts == {"TSLA cap?", "NVDA news?"}

\* Provider outcomes drawn in a chat turn.
ChatOutcomes(name, ticker) ==
    {[kind |-> "raise", detail |-> "timeout"]} \cup
    (IF name = "get_stock_news_and_sentiment"
     THEN {[kind |-> "ok", has_feed |-> FALSE, feed |-> << >>],
           [kind |-> "ok", has_feed |-> TRUE,
            feed |-> << [title |-> "Q3", summary |-> "up"] >>]}
     ELSE {[kind |-> "ok", items |-> << >>],
           [kind |-> "ok", items |-> << [key |-> "MarketCapitalization", value |-> "1000"] >>]})

(***************************************************************************)
(* The Streamlit script (lines 119-154).                                   *)
(***************************************************************************)
\* Variant of ConfigMissing that reports only when both keys are absent.
ConfigMissingBoth(gk, ak) == ~gk /\ ~ak

\* line 123
ConfigMissing(gk, ak) == ~gk \/ ~ak

\* Variant of AppendTurn that assigns a fresh list instead of appending.
AppendTurnOverwrites(msgs, role, content) == << Msg(role, content) >>

\* lines 137 / 154
AppendTurn(msgs, role, content) == Append(msgs, Msg(role, content))

\* Variant of ErrorReply that appends (+=) to the text streamed so far.
ErrorReplyKeepsPartial(partial, e) == partial \o Apology \o DebugInfo(e)

\* lines 151-152: the assignment discards the text accumulated so far
ErrorReply(partial, e) == Apology \o DebugInfo(e)

\* lines 147-148
Accumulate(buffer, chunk) == buffer \o chunk

Init ==
    /\ groq_key \in BOOLEAN
    /\ av_key \in BOOLEAN
    /\ error_shown = FALSE
    /\ has_messages = FALSE
    /\ st_messages = << >>
    /\ pc = "idle"
    /\ prompt = ""
    /\ full_response = ""
    /\ placeholder = ""
    /\ llm_messages = << >>
    /\ first_response = NoResponse
    /\ requests = << >>
    /\ tool_calls_made = << >>
    /\ received = << >>
    /\ exc = NoExc
    /\ submitted = << >>
    /\ tool_in = NoToolIn
    /\ tool_out = NoToolOut

\* A script run while a key is missing: line 123 true, line 124, nothing else.
RunBlocked ==
    /\ pc = "idle"
    /\ ConfigMissing(groq_key, av_key)
    /\ error_shown' = TRUE
    /\ UNCHANGED << groq_key, av_key, has_messages, st_messages, pc, prompt,
                    full_response, placeholder, llm_messages, first_response,
                    requests, tool_calls_made, received, exc, submitted,
                    tool_in, tool_out >>

\* A script run with no prompt entered: lines 126-136, chat_input returns None.
RunIdle ==
    /\ pc = "idle"
    /\ ~ConfigMissing(groq_key, av_key)
    /\ error_shown' = FALSE
    /\ has_messages' = TRUE
    /\ st_messages' = IF has_messages THEN st_messages
                      ELSE << Msg("assistant", Greeting) >>
    /\ UNCHANGED << groq_key, av_key, pc, prompt, full_response, placeholder,
                    llm_messages, first_response, requests, tool_calls_made,
                    received, exc, submitted, tool_in, tool_out >>

\* A script run triggered by a prompt typed into the chat input rendered by an
\* earlier run: lines 123-143.
Submit(p) ==
    /\ pc = "idle"
    /\ has_messages
    /\ ~ConfigMissing(groq_key, av_key)
    /\ Len(submitted) < MaxTurns
    /\ error_shown' = FALSE
    /\ st_messages' = AppendTurn(st_messages, "user", p)
    /\ submitted' = Append(submitted, p)
    /\ prompt' = p
    /\ full_response' = ""
    /\ placeholder' = ""
    /\ llm_messages' = << >>
    /\ first_response' = NoResponse
    /\ requests' = << >>
    /\ tool_calls_made' = << >>
    /\ received' = << >>
    /\ exc' = NoExc
    /\ tool_in' = NoToolIn
    /\ tool_out' = NoToolOut
    /\ pc' = "invoke"
    /\ UNCHANGED << groq_key, av_key, has_messages >>

\* lines 85-94: the first completion returns resp.
FirstCompletion(resp) ==
    /\ pc = "invoke"
    /\ llm_messages' = InitialMessages(prompt)
    /\ requests' = Append(requests, InvokeRequest(InitialMessages(prompt)))
    /\ first_response' = resp
    /\ pc' = "branch"
    /\ UNCHANGED << groq_key, av_key, error_shown, has_messages, st_messages,
                    prompt, full_response, placeholder, tool_calls_made,
                    received, exc, submitted, tool_in, tool_out >>

\* lines 85-94: the first completion raises e.
FirstCompletionFails(e) ==
    /\ pc = "invoke"
    /\ llm_messages' = InitialMessages(prompt)
    /\ requests' = Append(requests, InvokeRequest(InitialMessages(prompt)))
    /\ exc' = e
    /\ pc' = "except"
    /\ UNCHANGED << groq_key, av_key, error_shown, has_messages, st_messages,
                    prompt, full_response, placeholder, first_response,
                    tool_calls_made, received, submitted, tool_in, tool_out >>

\* Variant of Route without the else branch of line 112: an unregistered
\* name falls through to a direct streamed answer.
RouteFallsThrough(resp) ==
    IF resp.tool_calls = << >> THEN "direct"
    ELSE IF ~json_loads(resp.tool_calls[1].arguments).ok THEN "bad_arguments"
    ELSE IF resp.tool_calls[1].name \in ToolNames THEN "tool"
    ELSE "direct"

\* lines 96-101, 112, 114: which way get_llm_response goes on the first
\* completion resp.
Route(resp) ==
    IF resp.tool_calls = << >> THEN "direct"
    ELSE IF ~json_loads(resp.tool_calls[1].arguments).ok THEN "bad_arguments"
    ELSE IF resp.tool_calls[1].name \in ToolNames THEN "tool"
    ELSE "unknown_tool"

\* lines 96-102, 112-115: up to the generator's first yield (consumed by
\* lines 147-148), its first streaming request, or the exception of line 99.
Branch ==
    /\ pc = "branch"
    /\ CASE Route(first_response) = "direct" ->
              /\ requests' = Append(requests, StreamRequest(llm_messages))
              /\ pc' = "stream"
              /\ UNCHANGED << full_response, placeholder, exc >>
         [] Route(first_response) = "bad_arguments" ->
              /\ exc' = json_loads(first_response.tool_calls[1].arguments).error
              /\ pc' = "except"
              /\ UNCHANGED << full_response, placeholder, requests >>
         [] Route(first_response) = "tool" ->
              /\ full_response' = Accumulate(full_response, Notice)
              /\ placeholder' = Accumulate(full_response, Notice) \o Cursor
              /\ pc' = "tool"
              /\ UNCHANGED << exc, requests >>
         [] Route(first_response) = "unknown_tool" ->
              /\ full_response' = Accumulate(full_response, UnknownToolText)
              /\ placeholder' = Accumulate(full_response, UnknownToolText) \o Cursor
              /\ pc' = "end"
              /\ UNCHANGED << exc, requests >>
    /\ UNCHANGED << groq_key, av_key, error_shown, has_messages, st_messages,
                    prompt, llm_messages, first_response, tool_calls_made,
                    received, submitted, tool_in, tool_out >>

\* lines 103-109 when the call of line 104 does not bind its arguments.
CallToolFails ==
    /\ pc = "tool"
    /\ LET tool_call == first_response.tool_calls[1]
           function_args == json_loads(tool_call.arguments)
       IN  /\ BindError(tool_call.name, function_args) # NoExc
           /\ tool_calls_made' = Append(tool_calls_made,
                  [name |-> tool_call.name, args |-> function_args, ran |-> FALSE])
           /\ exc' = BindError(tool_call.name, function_args)
           /\ pc' = "except"
    /\ UNCHANGED << groq_key, av_key, error_shown, has_messages, st_messages,
                    prompt, full_response, placeholder, llm_messages,
                    first_response, requests, received, submitted, tool_in,
                    tool_out >>

\* lines 103-109: the tool runs against provider outcome o, its text is
\* appended as a tool message and the streaming completion is requested.
CallTool(o) ==
    /\ pc = "tool"
    /\ LET tool_call == first_response.tool_calls[1]
           function_args == json_loads(tool_call.arguments)
           tool_output == RunTool(tool_call.name, function_args.ticker, av_key, o)
           msgs == llm_messages \o << AssistantToolMessage(first_response),
                                      ToolMessage(tool_call, tool_output) >>
       IN  /\ BindError(tool_call.name, function_args) = NoExc
           /\ tool_calls_made' = Append(tool_calls_made,
                  [name |-> tool_call.name, args |-> function_args, ran |-> TRUE])
           /\ tool_in' = [name |-> tool_call.name, ticker |-> function_args.ticker,
                          api_key |-> av_key, outcome |-> o]
           /\ tool_out' = [returned |-> TRUE, text |-> tool_output]
           /\ llm_messages' = msgs
           /\ requests' = Append(requests, StreamRequest(msgs))
           /\ pc' = "stream"
    /\ UNCHANGED << groq_key, av_key, error_shown, has_messages, st_messages,
                    prompt, full_response, placeholder, first_response,
                    received, exc, submitted >>

\* lines 110-111 / 116-117 with 146-148: the stream delivers chunk c.
StreamChunk(c) ==
    /\ pc = "stream"
    /\ Len(received) < MaxChunks
    /\ received' = Append(received, c)
    /\ IF c.type = "str"
       THEN /\ full_response' = Accumulate(full_response, c.value)
            /\ placeholder' = Accumulate(full_response, c.value) \o Cursor
            /\ UNCHANGED << pc, exc >>
       ELSE /\ exc' = ConcatTypeError
            /\ pc' = "except"
            /\ UNCHANGED << full_response, placeholder >>
    /\ UNCHANGED << groq_key, av_key, error_shown, has_messages, st_messages,
                    prompt, llm_messages, first_response, requests,
                    tool_calls_made, submitted, tool_in, tool_out >>

\* The stream is exhausted: the generator returns.
StreamEnd ==
    /\ pc = "stream"
    /\ pc' = "end"
    /\ UNCHANGED << groq_key, av_key, error_shown, has_messages, st_messages,
                    prompt, full_response, placeholder, llm_messages,
                    first_response, requests, tool_calls_made, received, exc,
                    submitted, tool_in, tool_out >>

\* The streaming transport raises e.
StreamFails(e) ==
    /\ pc = "stream"
    /\ exc' = e
    /\ pc' = "except"
    /\ UNCHANGED << groq_key, av_key, error_shown, has_messages, st_messages,
                    prompt, full_response, placeholder, llm_messages,
                    first_response, requests, tool_calls_made, received,
                    submitted, tool_in, tool_out >>

\* lines 149 and 154: the loop ended without an exception.
Finish ==
    /\ pc = "end"
    /\ placeholder' = full_response
    /\ st_messages' = AppendTurn(st_messages, "assistant", full_response)
    /\ pc' = "idle"
    /\ UNCHANGED << groq_key, av_key, error_shown, has_messages, prompt,
                    full_response, llm_messages, first_response, requests,
                    tool_calls_made, received, exc, submitted, tool_in, tool_out >>

\* lines 150-154: the except clause of the chat loop.
Except ==
    /\ pc = "except"
    /\ full_response' = ErrorReply(full_response, exc)
    /\ placeholder' = ErrorReply(full_response, exc)
    /\ st_messages' = AppendTurn(st_messages, "assistant", ErrorReply(full_response, exc))
    /\ pc' = "idle"
    /\ UNCHANGED << groq_key, av_key, error_shown, has_messages, prompt,
                    llm_messages, first_response, requests, tool_calls_made,
                    received, exc, submitted, tool_in, tool_out >>

\* The provider outcomes possible for the tool call about to be made.
PendingOutcomes ==
    IF pc = "tool"
    THEN ChatOutcomes(first_response.tool_calls[1].name,
                      json_loads(first_response.tool_calls[1].arguments).ticker)
    ELSE {}

Next ==
    \/ RunBlocked
    \/ RunIdle
    \/ \E p \in Prompts : Submit(p)
    \/ \E resp \in FirstResponses : FirstCompletion(resp)
    \/ \E e \in InvokeErrors : FirstCompletionFails(e)
    \/ Branch
    \/ CallToolFails
    \/ \E o \in PendingOutcomes : CallTool(o)
    \/ \E c \in Chunks : StreamChunk(c)
    \/ StreamEnd
    \/ \E e \in StreamErrors : StreamFails(e)
    \/ Finish
    \/ Except

Spec == Init /\ [][Next]_vars

(***************************************************************************)
(* The market-data tools on their own: every input drawn, one application. *)
(***************************************************************************)
ToolInputs ==
    {[name |-> n, ticker |-> t, api_key |-> k, outcome |-> o] :
        n \in ToolNames, t \in Tickers, k \in BOOLEAN,
        o \in UNION {Outcomes(n2, t2) : n2 \in ToolNames, t2 \in Tickers}}

ToolInit ==
    /\ tool_in \in {i \in ToolInputs : i.outcome \in Outcomes(i.name, i.ticker)}
    /\ tool_out = NoToolOut
    /\ groq_key = TRUE
    /\ av_key = tool_in.api_key
    /\ error_shown = FALSE
    /\ has_messages = FALSE
    /\ st_messages = << >>
    /\ pc = "idle"
    /\ prompt = ""
    /\ full_response = ""
    /\ placeholder = ""
    /\ llm_messages = << >>
    /\ first_response = NoResponse
    /\ requests = << >>
    /\ tool_calls_made = << >>
    /\ received = << >>
    /\ exc = NoExc
    /\ submitted = << >>

\* function_to_call(ticker) for the drawn tool, key and provider outcome.
ToolApply ==
    /\ ~tool_out.returned
    /\ tool_out' = [returned |-> TRUE,
                    text |-> RunTool(tool_in.name, tool_in.ticker, tool_in.api_key,
                                     tool_in.outcome)]
    /\ UNCHANGED << tool_in, chat_vars >>

ToolNext == ToolApply

ToolSpec == ToolInit /\ [][ToolNext]_vars

(***************************************************************************)
(* Properties.                                                             *)
(***************************************************************************)
HasToolCalls == first_response.returned /\ first_response.tool_calls # << >>

FirstCall == first_response.tool_calls[1]

\* Positions after lines 96-104 have been passed in the current turn.
PastDispatch == pc \in {"stream", "end", "except", "idle"}

LastEntry == st_messages[Len(st_messages)]

HasToolMessage(msgs) == \E i \in 1..Len(msgs) : msgs[i].role = "tool"

Count(seq, kind) == Cardinality({i \in 1..Len(seq) : seq[i].kind = kind})

\* Concatenation, in arrival order, of the textual chunks.
RECURSIVE TextOf(_)
TextOf(chunks) ==
    IF chunks = << >> THEN ""
    ELSE (IF Head(chunks).type = "str" THEN Head(chunks).value ELSE "")
             \o TextOf(Tail(chunks))

\* C1 (as amended): in a turn whose first completion carries tool calls, at
\* most one tool call is made and it is the first one listed; the call is made
\* exactly once when that name is registered and its argument text decodes as
\* JSON, and never when the name is not registered; at most two requests are
\* sent, and the second is a streaming request without tool descriptors that
\* carries the tool message and after which no further call or request is made.
C1_OneToolThenPlainStream ==
    HasToolCalls =>
        /\ Len(tool_calls_made) <= 1
        /\ \A i \in 1..Len(tool_calls_made) :
              /\ tool_calls_made[i].name = FirstCall.name
              /\ tool_calls_made[i].args = json_loads(FirstCall.arguments)
        /\ (FirstCall.name \in {"get_stock_news_and_sentiment", "get_company_overview"}
              /\ json_loads(FirstCall.arguments).ok /\ PastDispatch)
             => Len(tool_calls_made) = 1
        /\ FirstCall.name \notin {"get_stock_news_and_sentiment", "get_company_overview"}
             => tool_calls_made = << >>
        /\ Len(requests) <= 2
        /\ \A i \in 2..Len(requests) :
              /\ requests[i].kind = "stream"
              /\ ~requests[i].tools
              /\ HasToolMessage(requests[i].messages)
              /\ Len(tool_calls_made) = 1

\* C1 witness: two tool calls were listed, one was made, the streaming
\* request followed and a chunk carrying a tool-call delta came back.
C1_Witness ==
    /\ pc = "idle"
    /\ HasToolCalls
    /\ Len(first_response.tool_calls) = 2
    /\ Len(tool_calls_made) = 1
    /\ Len(requests) = 2
    /\ \E i \in 1..Len(received) : received[i] = ObjChunk("tool_calls")

\* C1 as stated: exactly one tool is invoked whenever the first listed name is
\* registered.
C1_ExactlyOneWhenRegistered ==
    (HasToolCalls /\ PastDispatch
       /\ FirstCall.name \in {"get_stock_news_and_sentiment", "get_company_overview"})
      => Len(tool_calls_made) = 1

\* C2: while a turn is in progress, the first request carries every entry of
\* the session history (with or without the greeting the UI starts with), in
\* order and ending with the new prompt, together with the tool descriptors.
C2_FirstRequestCarriesHistory ==
    (pc # "idle" /\ requests # << >>) =>
        LET sent == SelectSeq(requests[1].messages, LAMBDA m : m.role # "system")
        IN  /\ requests[1].tools
            /\ sent = st_messages \/ sent = Tail(st_messages)

\* C3: once the call of a registered tool has been made, it has returned a
\* text and that text has been appended as the tool message.
C3_DispatchAlwaysYieldsText ==
    \A i \in 1..Len(tool_calls_made) :
        /\ tool_calls_made[i].ran
        /\ tool_out.returned
        /\ \E j \in 1..Len(llm_messages) :
              /\ llm_messages[j].role = "tool"
              /\ llm_messages[j].content = tool_out.text

\* C4: a stream that delivered a metadata-only chunk raises nothing, and the
\* buffer is what was yielded before the stream followed by the
\* concatenation of the textual chunks.
C4_NonTextChunksSkipped ==
    (\E i \in 1..Len(received) : received[i] = ObjChunk("metadata")) =>
        /\ exc = NoExc
        /\ full_response = (IF tool_calls_made # << >> THEN Notice ELSE "") \o TextOf(received)

\* C5 (as amended): when the first listed tool name is not registered, no
\* tool call is made and no second request is sent; if its argument text
\* decodes as JSON the turn ends without an exception and the reply is the
\* unknown-tool error text, and if it does not decode the turn ends as a
\* failed turn whose exception is the decoding error.
C5_UnknownTool ==
    (HasToolCalls /\ pc # "branch"
       /\ FirstCall.name \notin {"get_stock_news_and_sentiment", "get_company_overview"})
      => /\ tool_calls_made = << >>
         /\ ~tool_out.returned
         /\ Len(requests) = 1
         /\ received = << >>
         /\ IF json_loads(FirstCall.arguments).ok
            THEN /\ pc \in {"end", "idle"}
                 /\ exc = NoExc
                 /\ full_response = UnknownToolText
                 /\ pc = "idle" => /\ LastEntry = Msg("assistant", UnknownToolText)
                                   /\ placeholder = UnknownToolText
            ELSE /\ pc \in {"except", "idle"}
                 /\ exc = json_loads(FirstCall.arguments).error

\* C5 witness: a finished turn whose reply is the unknown-tool text.
C5_Witness ==
    /\ pc = "idle"
    /\ HasToolCalls
    /\ FirstCall.name = "get_stock_price"
    /\ LastEntry = Msg("assistant", UnknownToolText)

\* C5 as stated: an unregistered tool name always ends the turn with the
\* unknown-tool text and without an exception.
C5_UnknownToolNeverRaises ==
    (HasToolCalls /\ pc # "branch"
       /\ FirstCall.name \notin {"get_stock_news_and_sentiment", "get_company_overview"})
      => /\ exc = NoExc
         /\ full_response = UnknownToolText

\* C6: after a turn in which an exception was raised, the reply recorded and
\* displayed is the apology followed only by the debug block for that
\* exception, whatever had been streamed; and in no turn is the first
\* completion, the streaming completion or the tool call made twice.
C6_FailedTurnReply ==
    /\ (exc # NoExc /\ pc = "idle") =>
          /\ LastEntry = Msg("assistant", Apology \o DebugInfo(exc))
          /\ placeholder = Apology \o DebugInfo(exc)
          /\ full_response = Apology \o DebugInfo(exc)
    /\ exc # NoExc =>
          /\ pc \in {"except", "idle"}
          /\ Count(requests, "invoke") = 1
          /\ Count(requests, "stream") <= 1
          /\ Len(tool_calls_made) <= 1

\* C6 witness: the stream failed after text had been accumulated behind the
\* tool notice, and the turn is over.
C6_Witness ==
    /\ pc = "idle"
    /\ exc \in StreamErrors
    /\ tool_calls_made # << >>
    /\ \E i \in 1..Len(received) : received[i].type = "str"

\* The shape of the history: the greeting, then for every submitted prompt
\* its user entry followed, once the turn is over, by one assistant entry.
TurnShape ==
    LET completed == IF pc = "idle" THEN Len(submitted) ELSE Len(submitted) - 1
    IN  IF ~has_messages THEN st_messages = << >> /\ submitted = << >>
        ELSE /\ Len(st_messages) = 1 + Len(submitted) + completed
             /\ st_messages[1] = Msg("assistant", Greeting)
             /\ \A k \in 1..Len(submitted) : st_messages[2 * k] = Msg("user", submitted[k])
             /\ \A k \in 1..completed : st_messages[2 * k + 1].role = "assistant"

\* C7: every step keeps the entries already in the history, unchanged and in
\* place, and leaves the history in the shape one user entry then one
\* assistant entry per submitted prompt.
C7_HistoryAppendOnly ==
    [][ /\ Len(st_messages') >= Len(st_messages)
        /\ SubSeq(st_messages', 1, Len(st_messages)) = st_messages
        /\ TurnShape' ]_vars

\* C7 witness: two turns are over, the first failed and the second succeeded.
C7_Witness ==
    /\ pc = "idle"
    /\ Len(submitted) = 2
    /\ Len(st_messages) = 5
    /\ st_messages[3].content = Apology \o DebugInfo("groq.APIConnectionError: Connection error.")
    /\ exc = NoExc

\* Nothing of a chat turn has happened.
Quiet ==
    /\ pc = "idle"
    /\ submitted = << >>
    /\ st_messages = << >>
    /\ requests = << >>
    /\ tool_calls_made = << >>
    /\ ~tool_out.returned

\* C8: every script run made while a key is absent shows the configuration
\* error, accepts no prompt, and sends nothing to the model or the provider.
C8_ConfigGate ==
    [][ (~groq_key \/ ~av_key) => (error_shown' /\ Quiet /\ Quiet') ]_vars

\* C8 witness: only the market-data key is absent and the error is shown.
C8_Witness ==
    /\ groq_key
    /\ ~av_key
    /\ error_shown
    /\ Quiet

\* The provider returned data the tool renders (no early return, no exception).
Renders ==
    /\ tool_out.returned
    /\ tool_in.api_key
    /\ tool_in.outcome.kind = "ok"
    /\ IF tool_in.name = "get_stock_news_and_sentiment"
       THEN /\ tool_in.outcome.has_feed
            /\ tool_in.outcome.feed # << >>
            /\ \A i \in 1..Len(tool_in.outcome.feed) : ArticleOk(tool_in.outcome.feed[i])
       ELSE tool_in.outcome.items # << >>

\* C9: a rendered text over the budget is returned cut to the budget with
\* "..." appended (so at most budget + 3 characters); one within the budget is
\* returned unchanged.
C9_TruncationMarker ==
    Renders =>
        LET r == Rendered(tool_in.name, tool_in.ticker, tool_in.outcome)
        IN  /\ Len(tool_out.text) <= Budget + 3
            /\ IF Len(r) > Budget
               THEN tool_out.text = SubSeq(r, 1, Budget) \o "..."
               ELSE tool_out.text = r

\* C10: on a transport or parsing failure the returned text is
\* "Error getting company overview for {ticker}: {detail}", or
\* "Error getting news for {ticker}: {detail}" for the news tool.
C10_ErrorNamesTicker ==
    (tool_out.returned /\ tool_in.api_key /\ tool_in.outcome.kind = "raise") =>
        tool_out.text =
            (IF tool_in.name = "get_stock_news_and_sentiment"
             THEN "Error getting news for " ELSE "Error getting company overview for ")
            \o tool_in.ticker \o ": " \o tool_in.outcome.detail

====
